---- MODULE Spec2Model ----
(***************************************************************************)
(* Workforce dashboard (src/dashboard_arabic.py, and the variant           *)
(* src/app_arabic_dashboard.py whose extract_pdf_metrics differs): main()  *)
(* and extract_pdf_metrics().  The rates are extracted from the uploaded   *)
(* PDF report and offered in two text inputs; an uploaded employee         *)
(* workbook is scanned sheet by sheet for the contract and the master      *)
(* sheet, the two sheets are joined on 'Id number', the dependents table   *)
(* is grouped by head of household and attached, and four headline counts, *)
(* the two rates and the raw contract-status distribution are shown.       *)
(*                                                                         *)
(* Text is modelled as a sequence of one-character strings, so that        *)
(* astype(str), str.strip, str.lower, pd.to_numeric, re.sub, str.find and  *)
(* re.search are computed and not assumed.  Arabic letters are             *)
(* transliterated to ASCII characters, Eastern Arabic-Indic digits are the *)
(* characters "e0" .. "e9".                                                *)
(***************************************************************************)
EXTENDS Integers, Sequences, FiniteSets, TLC

VARIABLES uploads, sel, pc, idx, contract_sheet, master_sheet, result,
          emp_merged, memo,
          variant, docling_available, pdfplumber_available, extracted_text,
          tried, extracted, saudisation_rate, contract_doc_rate, compliance,
          report

vars == <<uploads, sel, pc, idx, contract_sheet, master_sheet, result,
          emp_merged, memo,
          variant, docling_available, pdfplumber_available, extracted_text,
          tried, extracted, saudisation_rate, contract_doc_rate, compliance,
          report>>

\* the state of the reconciliation part of main()
excel_vars == <<idx, contract_sheet, master_sheet, result, emp_merged, memo>>

\* the modules that could be imported, lines 52-63
env_vars == <<variant, docling_available, pdfplumber_available>>

\* the state of the rates part of main()
rate_vars == <<extracted_text, tried, extracted, saudisation_rate,
               contract_doc_rate, compliance>>

(***************************************************************************)
(* Bounds of the model.                                                    *)
(***************************************************************************)
MaxSheets == 3
MaxMaster == 2
MaxContract == 2
MaxDeps == 2

(***************************************************************************)
(* Text helpers.                                                           *)
(***************************************************************************)
Digits == <<"0", "1", "2", "3", "4", "5", "6", "7", "8", "9">>

UpperCase == <<"A", "B", "C", "D", "E", "F", "G", "H", "I", "J", "K", "L", "M",
               "N", "O", "P", "Q", "R", "S", "T", "U", "V", "W", "X", "Y", "Z">>

LowerCase == <<"a", "b", "c", "d", "e", "f", "g", "h", "i", "j", "k", "l", "m",
               "n", "o", "p", "q", "r", "s", "t", "u", "v", "w", "x", "y", "z">>

Whitespace == {" ", "\t", "\n"}

IsDigit(c) == \E i \in 1..10 : Digits[i] = c

DigitValue(c) == (CHOOSE i \in 1..10 : Digits[i] = c) - 1

\* str.lower() on one character
LowerChar(c) ==
    IF \E i \in 1..26 : UpperCase[i] = c
    THEN LowerCase[CHOOSE i \in 1..26 : UpperCase[i] = c]
    ELSE c

\* str.lower()
Lower(s) == [i \in 1..Len(s) |-> LowerChar(s[i])]

RECURSIVE LStrip(_)
LStrip(s) ==
    IF s # <<>> /\ Head(s) \in Whitespace THEN LStrip(Tail(s)) ELSE s

RECURSIVE RStrip(_)
RStrip(s) ==
    IF s # <<>> /\ s[Len(s)] \in Whitespace
    THEN RStrip(SubSeq(s, 1, Len(s) - 1))
    ELSE s

\* str.strip()
Strip(s) == RStrip(LStrip(s))

\* str(n) for a non-negative int
RECURSIVE IntStr(_)
IntStr(n) ==
    IF n < 10 THEN <<Digits[n + 1]>>
    ELSE IntStr(n \div 10) \o <<Digits[(n % 10) + 1]>>

\* the digits of a fraction, as characters
DigitChars(ds) == [i \in 1..Len(ds) |-> Digits[ds[i] + 1]]

\* str(x) for a float: the integer part, a point, the fraction ("7.0", "7.5")
FloatStr(n, frac) ==
    IntStr(n) \o <<".">> \o (IF frac = <<>> THEN <<"0">> ELSE DigitChars(frac))

(***************************************************************************)
(* Cells as pandas reads them: a missing cell (NaN), a number (integer     *)
(* part n and the digits of its fraction, <<>> for a whole number), or a   *)
(* text.                                                                   *)
(***************************************************************************)
Missing == [k |-> "nan", n |-> 0, frac |-> <<>>, s |-> <<>>]

Num(n, frac) == [k |-> "num", n |-> n, frac |-> frac, s |-> <<>>]

Text(s) == [k |-> "text", n |-> 0, frac |-> <<>>, s |-> s]

NaNStr == <<"n", "a", "n">>

\* the dtype pandas infers for a column
ColDtype(cells) ==
    IF Len(cells) = 0 THEN "object"
    ELSE IF \E i \in 1..Len(cells) : cells[i].k = "text" THEN "object"
    ELSE IF \A i \in 1..Len(cells) : cells[i].k = "num" /\ cells[i].frac = <<>>
         THEN "int64"
    ELSE "float64"

\* Series.astype(str) on one cell of a column of the given dtype
AsStr(cell, dtype) ==
    IF cell.k = "nan" THEN NaNStr
    ELSE IF cell.k = "text" THEN cell.s
    ELSE IF dtype = "float64" \/ cell.frac # <<>> THEN FloatStr(cell.n, cell.frac)
    ELSE IntStr(cell.n)

\* Series.astype(str) on a column
AsStrColumn(cells) == [i \in 1..Len(cells) |-> AsStr(cells[i], ColDtype(cells))]

(***************************************************************************)
(* pd.to_numeric(..., errors='coerce'): a number, or NaN (Missing).        *)
(* Unsigned decimal literals are parsed; any other text of the model's     *)
(* alphabet is not a number and is coerced to NaN.                         *)
(***************************************************************************)
AllDigits(s) == \A i \in 1..Len(s) : IsDigit(s[i])

RECURSIVE DigitsValue(_)
DigitsValue(s) ==
    IF s = <<>> THEN 0
    ELSE 10 * DigitsValue(SubSeq(s, 1, Len(s) - 1)) + DigitValue(s[Len(s)])

\* the digits of a fraction without its trailing zeros
RECURSIVE TrimZeros(_)
TrimZeros(ds) ==
    IF ds # <<>> /\ ds[Len(ds)] = 0 THEN TrimZeros(SubSeq(ds, 1, Len(ds) - 1))
    ELSE ds

ParseNumber(s) ==
    LET points == {i \in 1..Len(s) : s[i] = "."}
    IN  IF points = {}
        THEN IF s # <<>> /\ AllDigits(s) THEN Num(DigitsValue(s), <<>>) ELSE Missing
        ELSE LET p  == CHOOSE i \in points : \A j \in points : i <= j
                 ip == SubSeq(s, 1, p - 1)
                 fp == SubSeq(s, p + 1, Len(s))
             IN  IF AllDigits(ip) /\ AllDigits(fp) /\ (ip # <<>> \/ fp # <<>>)
                 THEN Num(DigitsValue(ip),
                          TrimZeros([i \in 1..Len(fp) |-> DigitValue(fp[i])]))
                 ELSE Missing

ToNumeric(cell) ==
    IF cell.k = "text" THEN ParseNumber(cell.s)
    ELSE IF cell.k = "num" THEN Num(cell.n, TrimZeros(cell.frac))
    ELSE Missing

\* the missing value of the nullable integer dtype
NA == -1

\* .astype('Int64') raises when a value is not a whole number
Int64Castable(nums) == \A i \in 1..Len(nums) : nums[i].k = "num" => nums[i].frac = <<>>

AsInt64(num) == IF num.k = "num" THEN num.n ELSE NA

(***************************************************************************)
(* The employee workbook: sheets in declared order, each with a header     *)
(* (its column names), rows, and whether reading its header succeeds.      *)
(***************************************************************************)
IdCol == "Id number"
NatCol == "Nationality"
StatusCol == "Contract Status"

Columns == {IdCol, NatCol, StatusCol}

None == 0

Range(f) == {f[i] : i \in DOMAIN f}

Column(rows, col) == [i \in 1..Len(rows) |-> rows[i][col]]

(***************************************************************************)
(* Contract status distribution, lines 252-256.                            *)
(***************************************************************************)
NaNUpperStr == <<"N", "a", "N">>

\* contract_df['Contract Status'].astype(str).str.strip()
StatusStrings(cells) ==
    LET strs == AsStrColumn(cells)
    IN  [i \in 1..Len(strs) |-> Strip(strs[i])]

\* the rows kept by ~isin(['', 'nan', 'NaN'])
CountedStatuses(statuses) ==
    SelectSeq(statuses, LAMBDA s : s \notin {<<>>, NaNStr, NaNUpperStr})

\* Series.value_counts()
ValueCounts(values) ==
    [v \in Range(values) |-> Cardinality({i \in 1..Len(values) : values[i] = v})]

\* contract_counts.get(label, 0)
CountsGet(counts, label) == IF label \in DOMAIN counts THEN counts[label] ELSE 0

\* 'محدد' and 'غير محدد', transliterated
FixedTermLabel == <<"m", "h", "d", "d">>
IndefiniteLabel == <<"g", "y", "r", " ", "m", "h", "d", "d">>

(***************************************************************************)
(* The joins, lines 263-282.                                               *)
(***************************************************************************)
RECURSIVE Concat(_)
Concat(seqs) == IF seqs = <<>> THEN <<>> ELSE Head(seqs) \o Concat(Tail(seqs))

\* the merge with how='left': unmatched master rows are kept
MergeKeepsLeft(master_ids, master_nats, contract_ids, contract_statuses) ==
    LET right == [j \in 1..Len(contract_ids) |->
                    [id |-> contract_ids[j], status |-> contract_statuses[j]]]
        matches(i) ==
            LET hit == SelectSeq(right, LAMBDA r : r.id = master_ids[i])
            IN  IF hit = <<>>
                THEN <<[id |-> master_ids[i], nat |-> master_nats[i],
                        status |-> NaNStr]>>
                ELSE [j \in 1..Len(hit) |->
                        [id |-> master_ids[i], nat |-> master_nats[i],
                         status |-> hit[j].status]]
    IN  Concat([i \in 1..Len(master_ids) |-> matches(i)])

\* a join that keeps, for each master row, the first matching contract row only
MergeFirstMatch(master_ids, master_nats, contract_ids, contract_statuses) ==
    LET right == [j \in 1..Len(contract_ids) |->
                    [id |-> contract_ids[j], status |-> contract_statuses[j]]]
        matches(i) ==
            LET hit == SelectSeq(right, LAMBDA r : r.id = master_ids[i])
            IN  IF hit = <<>> THEN <<>>
                ELSE <<[id |-> master_ids[i], nat |-> master_nats[i],
                        status |-> hit[1].status]>>
    IN  Concat([i \in 1..Len(master_ids) |-> matches(i)])

\* pd.merge(master_df[['Id number', 'Nationality']],
\*          contract_df[['Id number', 'Contract Status']], on='Id number', how='inner')
MergeInner(master_ids, master_nats, contract_ids, contract_statuses) ==
    LET right == [j \in 1..Len(contract_ids) |->
                    [id |-> contract_ids[j], status |-> contract_statuses[j]]]
        matches(i) ==
            LET hit == SelectSeq(right, LAMBDA r : r.id = master_ids[i])
            IN  [j \in 1..Len(hit) |->
                    [id |-> master_ids[i], nat |-> master_nats[i],
                     status |-> hit[j].status]]
    IN  Concat([i \in 1..Len(master_ids) |-> matches(i)])

\* the .str accessor raises AttributeError unless the column holds strings
StrAccessorOk(dtype, cells) ==
    /\ dtype = "object"
    /\ LET present == {i \in 1..Len(cells) : cells[i].k # "nan"}
       IN  present = {} \/ \E i \in present : cells[i].k = "text"

SaudiArabiaLower == <<"s", "a", "u", "d", "i", " ", "a", "r", "a", "b", "i", "a">>

\* the comparison without .str.lower()
IsForeignCaseSensitive(nat) == nat.k # "text" \/ nat.s # SaudiArabiaLower

\* emp_df['Nationality'].str.lower() != 'saudi arabia'
IsForeign(nat) == nat.k # "text" \/ Lower(nat.s) # SaudiArabiaLower

\* the dependents rows left ungrouped: one entry per row
DepCountsUngrouped(heads) ==
    [i \in 1..Len(heads) |-> [head |-> heads[i], dependents |-> 1]]

\* dep_df.groupby(head).size().reset_index(name='dependents'): NA keys are dropped
DepCounts(heads) ==
    LET keys == {heads[i] : i \in 1..Len(heads)} \ {NA}
        ordered == CHOOSE q \in [1..Cardinality(keys) -> keys] :
                      /\ Range(q) = keys
                      /\ \A i, j \in DOMAIN q : i < j => q[i] < q[j]
    IN  [i \in 1..Cardinality(keys) |->
            [head |-> ordered[i],
             dependents |-> Cardinality({r \in 1..Len(heads) : heads[r] = ordered[i]})]]

\* the threshold of line 282
ManyDependents == 4

\* pd.merge(emp_df, dep_counts, left_on='Id number_int', right_on=head, how='left')
\* followed by fillna(0)
MergeLeft(emp_df, dep_counts) ==
    LET matches(i) ==
            LET hit == SelectSeq(dep_counts, LAMBDA r : r.head = emp_df[i].id_int)
            IN  IF hit = <<>>
                THEN <<[id |-> emp_df[i].id, nat |-> emp_df[i].nat,
                        status |-> emp_df[i].status, id_int |-> emp_df[i].id_int,
                        dependents |-> 0]>>
                ELSE [j \in 1..Len(hit) |->
                        [id |-> emp_df[i].id, nat |-> emp_df[i].nat,
                         status |-> emp_df[i].status, id_int |-> emp_df[i].id_int,
                         dependents |-> hit[j].dependents]]
    IN  Concat([i \in 1..Len(emp_df) |-> matches(i)])

(***************************************************************************)
(* What main() shows: nothing yet, an error message, or the metrics.       *)
(***************************************************************************)
NoResult ==
    [kind |-> "none", err |-> "", fixed |-> 0, indefinite |-> 0, foreign |-> 0,
     foreign_many |-> 0, dist |-> <<>>]

ErrorResult(err) == [NoResult EXCEPT !.kind = "error", !.err = err]

\* the column names an error message carries
ErrorColumns(err) ==
    CASE err = "no_contract_sheet" -> {StatusCol}
      [] err = "no_master_sheet" -> {NatCol, IdCol}
      [] err = "no_status_column" -> {StatusCol}
      [] err = "no_id_column" -> {IdCol}
      [] OTHER -> {}

\* lines 252-256
ContractCounts(contract_df) ==
    ValueCounts(CountedStatuses(StatusStrings(Column(contract_df.rows, StatusCol))))

\* lines 263-267
EmpDf(master_df, contract_df) ==
    MergeInner(AsStrColumn(Column(master_df.rows, IdCol)),
               Column(master_df.rows, NatCol),
               AsStrColumn(Column(contract_df.rows, IdCol)),
               StatusStrings(Column(contract_df.rows, StatusCol)))

\* line 274, before the cast
DepNumeric(dep_df) == [i \in 1..Len(dep_df) |-> ToNumeric(dep_df[i])]

\* line 275, before the cast
EmpNumeric(emp_df) == [i \in 1..Len(emp_df) |-> ToNumeric(Text(emp_df[i].id))]

\* lines 275-280
EmpMerged(emp_df, dep_df) ==
    LET nums  == EmpNumeric(emp_df)
        heads == [i \in 1..Len(dep_df) |-> AsInt64(DepNumeric(dep_df)[i])]
        left  == [i \in 1..Len(emp_df) |->
                    [id |-> emp_df[i].id, nat |-> emp_df[i].nat,
                     status |-> emp_df[i].status, id_int |-> AsInt64(nums[i])]]
    IN  MergeLeft(left, DepCounts(heads))

\* line 282 with 'dependents >= 4'
ForeignWithManyDepInclusive(merged) ==
    SelectSeq(merged, LAMBDA r : IsForeign(r.nat) /\ r.dependents >= ManyDependents)

\* line 282
ForeignWithManyDep(merged) ==
    SelectSeq(merged, LAMBDA r : IsForeign(r.nat) /\ r.dependents > ManyDependents)

\* lines 244-290 and the handler of lines 313-314
Reconciled(master_df, contract_df, dep_df) ==
    IF StatusCol \notin contract_df.cols
    THEN [result |-> ErrorResult("no_status_column"), merged |-> <<>>]
    ELSE IF IdCol \notin master_df.cols \/ IdCol \notin contract_df.cols
    THEN [result |-> ErrorResult("no_id_column"), merged |-> <<>>]
    ELSE IF NatCol \notin master_df.cols
    THEN [result |-> ErrorResult("exception"), merged |-> <<>>]
    ELSE
      LET counts == ContractCounts(contract_df)
          emp_df == EmpDf(master_df, contract_df)
          nats   == [i \in 1..Len(emp_df) |-> emp_df[i].nat]
      IN  IF ~StrAccessorOk(ColDtype(Column(master_df.rows, NatCol)), nats)
          THEN [result |-> ErrorResult("exception"), merged |-> <<>>]
          ELSE IF ~Int64Castable(DepNumeric(dep_df))
          THEN [result |-> ErrorResult("exception"), merged |-> <<>>]
          ELSE IF ~Int64Castable(EmpNumeric(emp_df))
          THEN [result |-> ErrorResult("exception"), merged |-> <<>>]
          ELSE
            LET merged == EmpMerged(emp_df, dep_df)
            IN  [result |->
                    [kind |-> "metrics", err |-> "",
                     fixed |-> CountsGet(counts, FixedTermLabel),
                     indefinite |-> CountsGet(counts, IndefiniteLabel),
                     foreign |-> Len(SelectSeq(emp_df, LAMBDA r : IsForeign(r.nat))),
                     foreign_many |-> Len(ForeignWithManyDep(merged)),
                     dist |-> counts],
                 merged |-> merged]

(***************************************************************************)
(* Rate extraction: parse_rates, lines 90-117, and the per-page loop of    *)
(* the variant, src/app_arabic_dashboard.py lines 216-243.                 *)
(***************************************************************************)
\* Python's None where a str is expected; no text holds this character
NoneText == <<"None">>

\* the digits U+0660 .. U+0669
EasternDigits == <<"e0", "e1", "e2", "e3", "e4", "e5", "e6", "e7", "e8", "e9">>

IsEasternDigit(c) == \E i \in 1..10 : EasternDigits[i] = c

\* the character class [0-9٠-٩]
IsRateDigit(c) == IsDigit(c) \/ IsEasternDigit(c)

\* the translation with the Western digits in descending order
TranslateDescending(num) ==
    [i \in 1..Len(num) |->
        IF \E k \in 1..10 : EasternDigits[k] = num[i]
        THEN Digits[11 - (CHOOSE k \in 1..10 : EasternDigits[k] = num[i])]
        ELSE num[i]]

\* the translation left out: the matched run is returned as it is
TranslateNothing(num) == num

\* num.translate(str.maketrans(eastern digits, "0123456789"))
Translate(num) ==
    [i \in 1..Len(num) |->
        IF IsEasternDigit(num[i])
        THEN Digits[CHOOSE k \in 1..10 : EasternDigits[k] = num[i]]
        ELSE num[i]]

\* the substitution left out: the text is searched as it was extracted
CollapseNothing(text) == text

\* re.sub(r"\s+", " ", text): up to the first whitespace the text is kept,
\* the run of whitespace that starts there becomes one space
RECURSIVE CollapseWhitespace(_)
CollapseWhitespace(text) ==
    LET spaces == {i \in 1..Len(text) : text[i] \in Whitespace}
    IN  IF spaces = {} THEN text
        ELSE LET first == CHOOSE i \in spaces : \A j \in spaces : i <= j
             IN  SubSeq(text, 1, first - 1) \o <<" ">>
                    \o CollapseWhitespace(LStrip(SubSeq(text, first, Len(text))))

\* the 0-based offsets at which phrase occurs in text
Occurs(text, phrase) ==
    {i \in 0..(Len(text) - Len(phrase)) :
        SubSeq(text, i + 1, i + Len(phrase)) = phrase}

\* text.find(phrase): the offset of the first occurrence, -1 when there is none
Find(text, phrase) ==
    LET hits == Occurs(text, phrase)
    IN  IF hits = {} THEN -1 ELSE CHOOSE i \in hits : \A j \in hits : i <= j

\* 'معدل التوطين' and 'معدل توثيق العقود', transliterated
SaudPhrase == <<"m", "c", "d", "l", " ", "a", "l", "t", "w", "v", "y", "n">>
DocPhrase ==
    <<"m", "c", "d", "l", " ", "t", "w", "x", "y", "q", " ",
      "a", "l", "c", "q", "w", "d">>

\* the look-ahead of line 100 and of the variant's line 225
WindowSize == 80
AppWindowSize == 60

\* text[idx_saud:idx_saud + 80]
Window(text, at, size) ==
    SubSeq(text, at + 1, IF at + size < Len(text) THEN at + size ELSE Len(text))

\* the end of the run of digits that starts at i
DigitRunEnd(w, i) ==
    CHOOSE j \in i..Len(w) :
        /\ \A k \in i..j : IsRateDigit(w[k])
        /\ j = Len(w) \/ ~IsRateDigit(w[j + 1])

\* the first position after j that holds no whitespace (Len(w) + 1 at the end)
SkipSpaces(w, j) ==
    CHOOSE k \in (j + 1)..(Len(w) + 1) :
        /\ \A s \in (j + 1)..(k - 1) : w[s] \in Whitespace
        /\ k = Len(w) + 1 \/ w[k] \notin Whitespace

\* the pattern ([0-9٠-٩]+)\s*% matches at position i.  The digits
\* are taken greedily; giving digits or spaces back never makes '%' match.
MatchesAt(w, i) ==
    /\ IsRateDigit(w[i])
    /\ LET k == SkipSpaces(w, DigitRunEnd(w, i))
       IN  k <= Len(w) /\ w[k] = "%"

\* re.search(pattern, window): group 1 of the leftmost match, None without one
Search(w) ==
    LET starts == {i \in 1..Len(w) : MatchesAt(w, i)}
    IN  IF starts = {} THEN NoneText
        ELSE LET i == CHOOSE s \in starts : \A t \in starts : s <= t
             IN  SubSeq(w, i, DigitRunEnd(w, i))

\* lines 98-106 (and 108-116) for one phrase, on the normalised text
ParseRate(text, phrase, size) ==
    LET at == Find(text, phrase)
    IN  IF at = -1 THEN NoneText
        ELSE LET m == Search(Window(text, at, size))
             IN  IF m = NoneText THEN NoneText ELSE Translate(m) \o <<"%">>

\* lines 90-117
parse_rates(text) ==
    IF text = <<>> THEN <<NoneText, NoneText>>
    ELSE LET normal == CollapseWhitespace(text)
         IN  <<ParseRate(normal, SaudPhrase, WindowSize),
               ParseRate(normal, DocPhrase, WindowSize)>>

\* "not extracted_text"
NoText(text) == text = NoneText \/ text = <<>>

\* src/app_arabic_dashboard.py lines 216-243: the loop over the pages, each
\* rate taken from the first page that yields it
RECURSIVE PerPageRates(_, _)
PerPageRates(pages, rates) ==
    IF pages = <<>> THEN rates
    ELSE IF NoText(Head(pages)) THEN PerPageRates(Tail(pages), rates)
    ELSE LET text == CollapseWhitespace(Head(pages))
             saud == IF rates[1] = NoneText
                     THEN ParseRate(text, SaudPhrase, AppWindowSize)
                     ELSE rates[1]
             doc  == IF rates[2] = NoneText
                     THEN ParseRate(text, DocPhrase, AppWindowSize)
                     ELSE rates[2]
         IN  PerPageRates(Tail(pages), <<saud, doc>>)

(***************************************************************************)
(* The state machine.  uploads holds the files of two upload slots, sel    *)
(* the slot whose files are in the uploaders; a run of main() on them goes *)
(* idle -> (docling -> pdfplumber -> return | per_page) -> inputs -> excel *)
(* -> scan (one step per sheet) -> done -> idle.                           *)
(***************************************************************************)
emp_xls == uploads[sel].emp
dep_file == uploads[sel].dep
pdf_file == uploads[sel].pdf

\* what the operator did to the two text inputs of lines 192-201
typed == uploads[sel].typed

\* nothing is shown in a compliance section
NoRates == [shown |-> FALSE, rates |-> <<<<>>, <<>>>>]

\* a compliance section: a rate, or the "not provided" note for an empty one
ShownRates(saud, doc) == [shown |-> TRUE, rates |-> <<saud, doc>>]

\* result.document.export_to_text(), export_to_markdown(): lines 130-142
DoclingResult(docling) ==
    IF docling.kind \in {"text", "markdown"} THEN docling.text ELSE NoneText

\* "\n".join(text_parts)
RECURSIVE Join(_)
Join(parts) ==
    IF parts = <<>> THEN <<>>
    ELSE IF Len(parts) = 1 THEN Head(parts)
    ELSE Head(parts) \o <<"\n">> \o Join(Tail(parts))

\* lines 153-162: the text of the pages, None when reading raises, and the
\* text so far when no page has text
PdfplumberResult(pdf, text) ==
    IF pdf.raises THEN NoneText
    ELSE LET text_parts == SelectSeq(pdf.pages, LAMBDA page_text : ~NoText(page_text))
         IN  IF text_parts = <<>> THEN text ELSE Join(text_parts)

\* an input that falls back to the prefilled value when it is emptied
TextInputRestoresEmpty(input, value) ==
    IF input.edited /\ input.text # <<>> THEN input.text ELSE value

\* the input shows the extracted rate whatever the operator typed
TextInputKeepsValue(input, value) == IF value # <<>> THEN value ELSE input.text

\* st.text_input(label, value=...): what the operator typed, the prefilled
\* value when they typed nothing
TextInput(input, value) == IF input.edited THEN input.text ELSE value

\* lines 179-188: a rerun of the page starts; the rates are None
Begin ==
    /\ pc = "idle"
    /\ saudisation_rate' = NoneText
    /\ contract_doc_rate' = NoneText
    /\ extracted' = <<NoneText, NoneText>>
    /\ extracted_text' = NoneText
    /\ tried' = <<>>
    /\ compliance' = NoRates
    /\ pc' = IF ~pdf_file.present THEN "inputs"
             ELSE IF variant = "app" THEN "per_page" ELSE "docling"
    /\ UNCHANGED <<uploads, sel, excel_vars, env_vars, report>>

\* lines 121-148: the docling attempt
TryDocling ==
    /\ pc = "docling"
    /\ IF docling_available
       THEN /\ tried' = Append(tried, "docling")
            /\ extracted_text' = DoclingResult(pdf_file.docling)
       ELSE UNCHANGED <<tried, extracted_text>>
    /\ pc' = "pdfplumber"
    /\ UNCHANGED <<uploads, sel, excel_vars, env_vars, report, extracted,
                   saudisation_rate, contract_doc_rate, compliance>>

\* TryPdfplumber without the try of lines 152-162: the exception leaves
\* extract_pdf_metrics
TryPdfplumberUncaught ==
    /\ pc = "pdfplumber"
    /\ IF NoText(extracted_text) /\ pdfplumber_available
       THEN /\ tried' = Append(tried, "pdfplumber")
            /\ extracted_text' = PdfplumberResult(pdf_file, extracted_text)
            /\ pc' = IF pdf_file.raises THEN "raised" ELSE "return"
       ELSE /\ UNCHANGED <<tried, extracted_text>>
            /\ pc' = "return"
    /\ UNCHANGED <<uploads, sel, excel_vars, env_vars, report, extracted,
                   saudisation_rate, contract_doc_rate, compliance>>

\* TryPdfplumber without the "not extracted_text" test of line 151
TryPdfplumberAlways ==
    /\ pc = "pdfplumber"
    /\ IF pdfplumber_available
       THEN /\ tried' = Append(tried, "pdfplumber")
            /\ extracted_text' = PdfplumberResult(pdf_file, extracted_text)
       ELSE UNCHANGED <<tried, extracted_text>>
    /\ pc' = "return"
    /\ UNCHANGED <<uploads, sel, excel_vars, env_vars, report, extracted,
                   saudisation_rate, contract_doc_rate, compliance>>

\* lines 150-162: the pdfplumber attempt
TryPdfplumber ==
    /\ pc = "pdfplumber"
    /\ IF NoText(extracted_text) /\ pdfplumber_available
       THEN /\ tried' = Append(tried, "pdfplumber")
            /\ extracted_text' = PdfplumberResult(pdf_file, extracted_text)
       ELSE UNCHANGED <<tried, extracted_text>>
    /\ pc' = "return"
    /\ UNCHANGED <<uploads, sel, excel_vars, env_vars, report, extracted,
                   saudisation_rate, contract_doc_rate, compliance>>

\* lines 164-166 and the assignment of line 188
ReturnRates ==
    /\ pc = "return"
    /\ LET rates == IF NoText(extracted_text) THEN <<NoneText, NoneText>>
                    ELSE parse_rates(extracted_text)
       IN  /\ extracted' = rates
           /\ saudisation_rate' = rates[1]
           /\ contract_doc_rate' = rates[2]
    /\ pc' = "inputs"
    /\ UNCHANGED <<uploads, sel, excel_vars, env_vars, report, extracted_text,
                   tried, compliance>>

\* the variant's extract_pdf_metrics, src/app_arabic_dashboard.py lines
\* 209-246, and the assignment of its line 270
ExtractPerPage ==
    /\ pc = "per_page"
    /\ tried' = IF pdfplumber_available THEN <<"pdfplumber">> ELSE <<>>
    /\ LET rates == IF ~pdfplumber_available \/ pdf_file.raises
                    THEN <<NoneText, NoneText>>
                    ELSE PerPageRates(pdf_file.pages, <<NoneText, NoneText>>)
       IN  /\ extracted' = rates
           /\ saudisation_rate' = rates[1]
           /\ contract_doc_rate' = rates[2]
    /\ pc' = "inputs"
    /\ UNCHANGED <<uploads, sel, excel_vars, env_vars, report, extracted_text,
                   compliance>>

\* lines 191-214: the two text inputs, prefilled with the extracted rates,
\* and the compliance section shown when a rate is given (the variant has
\* no such section before the workbook is read)
RateInputs ==
    /\ pc = "inputs"
    /\ LET saud == TextInput(typed[1],
                       IF saudisation_rate # NoneText THEN saudisation_rate ELSE <<>>)
           doc  == TextInput(typed[2],
                       IF contract_doc_rate # NoneText THEN contract_doc_rate ELSE <<>>)
       IN  /\ saudisation_rate' = saud
           /\ contract_doc_rate' = doc
           /\ compliance' =
                 IF variant = "dashboard" /\ (saud # <<>> \/ doc # <<>>)
                 THEN ShownRates(saud, doc) ELSE NoRates
    /\ pc' = "excel"
    /\ UNCHANGED <<uploads, sel, excel_vars, env_vars, report, extracted_text,
                   tried, extracted>>

\* Start without lines 224-225: the sheets of the last run are kept
StartKeepsSheets ==
    /\ pc = "excel"
    /\ pc' = "scan"
    /\ idx' = 1
    /\ result' = NoResult
    /\ emp_merged' = <<>>
    /\ report' = NoRates
    /\ UNCHANGED <<uploads, sel, memo, contract_sheet, master_sheet>>
    /\ UNCHANGED <<env_vars, rate_vars>>

\* lines 216-225: the reconciliation starts with fresh locals and nothing
\* shown below the inputs
Start ==
    /\ pc = "excel"
    /\ pc' = "scan"
    /\ idx' = 1
    /\ contract_sheet' = None
    /\ master_sheet' = None
    /\ result' = NoResult
    /\ emp_merged' = <<>>
    /\ report' = NoRates
    /\ UNCHANGED <<uploads, sel, memo>>
    /\ UNCHANGED <<env_vars, rate_vars>>

\* ScanSheet without the 'master_sheet is None' guard: the last match wins
ScanSheetLastMaster ==
    /\ pc = "scan"
    /\ idx <= Len(emp_xls)
    /\ LET sheet == emp_xls[idx]
       IN  IF ~sheet.readable
           THEN UNCHANGED <<contract_sheet, master_sheet>>
           ELSE /\ contract_sheet' =
                     IF StatusCol \in sheet.cols /\ contract_sheet = None
                     THEN idx ELSE contract_sheet
                /\ master_sheet' =
                     IF NatCol \in sheet.cols /\ IdCol \in sheet.cols
                     THEN idx ELSE master_sheet
    /\ idx' = idx + 1
    /\ UNCHANGED <<uploads, sel, pc, result, emp_merged, memo>>
    /\ UNCHANGED <<env_vars, rate_vars, report>>

\* lines 227-236: one iteration of the loop over sheet_names
ScanSheet ==
    /\ pc = "scan"
    /\ idx <= Len(emp_xls)
    /\ LET sheet == emp_xls[idx]
       IN  IF ~sheet.readable
           THEN UNCHANGED <<contract_sheet, master_sheet>>
           ELSE /\ contract_sheet' =
                     IF StatusCol \in sheet.cols /\ contract_sheet = None
                     THEN idx ELSE contract_sheet
                /\ master_sheet' =
                     IF NatCol \in sheet.cols /\ IdCol \in sheet.cols
                        /\ master_sheet = None
                     THEN idx ELSE master_sheet
    /\ idx' = idx + 1
    /\ UNCHANGED <<uploads, sel, pc, result, emp_merged, memo>>
    /\ UNCHANGED <<env_vars, rate_vars, report>>

\* lines 237-239
NoContractSheet ==
    /\ pc = "scan"
    /\ idx > Len(emp_xls)
    /\ contract_sheet = None
    /\ result' = ErrorResult("no_contract_sheet")
    /\ pc' = "done"
    /\ UNCHANGED <<uploads, sel, idx, contract_sheet, master_sheet, emp_merged, memo>>
    /\ UNCHANGED <<env_vars, rate_vars, report>>

\* lines 240-242 left out: read_excel(sheet_name=None) returns a dict, the
\* column test of line 260 raises and the handler of lines 313-314 reports it
NoMasterSheetUnchecked ==
    /\ pc = "scan"
    /\ idx > Len(emp_xls)
    /\ contract_sheet # None
    /\ master_sheet = None
    /\ result' = ErrorResult("exception")
    /\ pc' = "done"
    /\ UNCHANGED <<uploads, sel, idx, contract_sheet, master_sheet, emp_merged, memo>>
    /\ UNCHANGED <<env_vars, rate_vars, report>>

\* lines 240-242
NoMasterSheet ==
    /\ pc = "scan"
    /\ idx > Len(emp_xls)
    /\ contract_sheet # None
    /\ master_sheet = None
    /\ result' = ErrorResult("no_master_sheet")
    /\ pc' = "done"
    /\ UNCHANGED <<uploads, sel, idx, contract_sheet, master_sheet, emp_merged, memo>>
    /\ UNCHANGED <<env_vars, rate_vars, report>>

\* lines 244-314; the compliance section of lines 293-303 follows the metrics
Reconcile ==
    /\ pc = "scan"
    /\ idx > Len(emp_xls)
    /\ contract_sheet # None
    /\ master_sheet # None
    /\ LET r == IF {contract_sheet, master_sheet} \subseteq 1..Len(emp_xls)
                THEN Reconciled(emp_xls[master_sheet], emp_xls[contract_sheet],
                                dep_file)
                ELSE [result |-> ErrorResult("exception"), merged |-> <<>>]
       IN  /\ result' = r.result
           /\ emp_merged' = r.merged
           /\ report' = IF r.result.kind = "metrics"
                        THEN ShownRates(saudisation_rate, contract_doc_rate)
                        ELSE NoRates
    /\ pc' = "done"
    /\ UNCHANGED <<uploads, sel, idx, contract_sheet, master_sheet, memo>>
    /\ UNCHANGED <<env_vars, rate_vars>>

\* main() returns; memo remembers what the first run on each slot showed
Return ==
    /\ pc = "done"
    /\ pc' = "idle"
    /\ memo' = IF memo[sel] = NoResult THEN [memo EXCEPT ![sel] = result] ELSE memo
    /\ UNCHANGED <<uploads, sel, idx, contract_sheet, master_sheet, result, emp_merged>>
    /\ UNCHANGED <<env_vars, rate_vars, report>>

\* lines 179-180: the user puts the other slot's files into the uploaders
UploadFiles ==
    /\ pc = "idle"
    /\ sel' = 3 - sel
    /\ UNCHANGED <<uploads, pc, idx, contract_sheet, master_sheet, result,
                   emp_merged, memo>>
    /\ UNCHANGED <<env_vars, rate_vars, report>>

Next ==
    \/ Begin
    \/ TryDocling
    \/ TryPdfplumber
    \/ ReturnRates
    \/ ExtractPerPage
    \/ RateInputs
    \/ Start
    \/ ScanSheet
    \/ NoContractSheet
    \/ NoMasterSheet
    \/ Reconcile
    \/ Return
    \/ UploadFiles

(***************************************************************************)
(* Uploaded files.                                                         *)
(***************************************************************************)
Sheet(cols, readable, rows) == [cols |-> cols, readable |-> readable, rows |-> rows]

\* docling: convert() raises (lines 141-142), returns no document (line 132),
\* export_to_text() returns a text (line 135), export_to_text() raises and
\* export_to_markdown() returns a text (line 138), or both raise (line 140)
Docling(kind, text) == [kind |-> kind, text |-> text]

DoclingRaises == Docling("raises", <<>>)
DoclingNoDocument == Docling("no_document", <<>>)
DoclingExportsRaise == Docling("exports_raise", <<>>)

\* a PDF report: what docling makes of it, whether pdfplumber raises on it,
\* and the text pdfplumber extracts from each page
Pdf(docling, raises, pages) ==
    [present |-> TRUE, docling |-> docling, raises |-> raises, pages |-> pages]

\* no report uploaded: pdf_file is None
NoPdf == [present |-> FALSE, docling |-> DoclingRaises, raises |-> FALSE, pages |-> <<>>]

\* a text input the operator left alone, and one they typed a text into
Untouched == [edited |-> FALSE, text |-> <<>>]
Typed(text) == [edited |-> TRUE, text |-> text]

UploadReport(emp, dep, pdf, inputs) ==
    [emp |-> emp, dep |-> dep, pdf |-> pdf, typed |-> inputs]

Upload(emp, dep) == UploadReport(emp, dep, NoPdf, <<Untouched, Untouched>>)

\* a row of a sheet with the given header
Row(cols, id, nat, status) ==
    [c \in cols |-> IF c = IdCol THEN id ELSE IF c = NatCol THEN nat ELSE status]

MasterRow(id, nat) == Row({IdCol, NatCol}, id, nat, Missing)

ContractRow(id, status) == Row({IdCol, StatusCol}, id, Missing, status)

MasterSheet(rows) == Sheet({IdCol, NatCol}, TRUE, rows)

ContractSheet(rows) == Sheet({IdCol, StatusCol}, TRUE, rows)

\* all tables of at most max rows drawn from rows
Tables(rows, max) == UNION {[1..n -> rows] : n \in 0..max}

Egypt == <<"E", "g", "y", "p", "t">>
SaudiArabia == <<"S", "a", "u", "d", "i", " ", "A", "r", "a", "b", "i", "a">>
SaudiArabiaUpper == <<"S", "A", "U", "D", "I", " ", "A", "R", "A", "B", "I", "A">>

Id7 == Num(7, <<>>)
Id9 == Num(9, <<>>)

\* 'Saudisation rate 75%' and 'contract documentation rate 90%' on two lines
Rate75 == <<" ", "7", "5", "%">>
Rate90 == <<" ", "9", "0", "%">>
Rate80 == <<"8", "0", "%">>
TwoRates == SaudPhrase \o Rate75 \o <<"\n">> \o DocPhrase \o Rate90

\* the files of the second upload slot: contract sheet first, master sheet
\* second, a report that docling fails on, and a rate typed by the operator
OtherUpload ==
    UploadReport(<<ContractSheet(<<ContractRow(Id7, Text(FixedTermLabel)),
                                   ContractRow(Id9, Text(IndefiniteLabel))>>),
                   MasterSheet(<<MasterRow(Id7, Text(Egypt)),
                                 MasterRow(Id9, Text(SaudiArabia))>>)>>,
                 <<Id7>>,
                 Pdf(DoclingRaises, FALSE, <<TwoRates>>),
                 <<Untouched, Typed(Rate80)>>)

\* workbooks that lack one of the two sheets
IncompleteUploads ==
    {Upload(<<MasterSheet(<<MasterRow(Id7, Text(Egypt))>>)>>, <<Id7>>),
     Upload(<<ContractSheet(<<ContractRow(Id7, Text(FixedTermLabel))>>)>>, <<Id7>>)}

Variants == {"dashboard", "app"}

\* the state before the first run, for the given first-slot uploads and the
\* given outcomes of the imports of lines 52-63
InitIn(domain, docling, plumber) ==
    /\ uploads \in {<<u, OtherUpload>> : u \in domain \cup IncompleteUploads}
    /\ sel = 1
    /\ pc = "idle"
    /\ idx = 1
    /\ contract_sheet = None
    /\ master_sheet = None
    /\ result = NoResult
    /\ emp_merged = <<>>
    /\ memo = <<NoResult, NoResult>>
    /\ variant \in Variants
    /\ docling_available \in docling
    /\ pdfplumber_available \in plumber
    /\ extracted_text = NoneText
    /\ tried = <<>>
    /\ extracted = <<NoneText, NoneText>>
    /\ saudisation_rate = NoneText
    /\ contract_doc_rate = NoneText
    /\ compliance = NoRates
    /\ report = NoRates

\* both modules installed
InitWith(domain) == InitIn(domain, {TRUE}, {TRUE})

(***************************************************************************)
(* Workbooks for the sheet locator: every header over the three columns,   *)
(* and sheets whose header cannot be read.  The sheet at position i holds  *)
(* one row whose status names the position and whose nationality is        *)
(* foreign at odd positions, so the metrics show which sheets were used.   *)
(***************************************************************************)
SheetKinds ==
    {[cols |-> c, readable |-> TRUE] : c \in SUBSET Columns}
        \cup {[cols |-> Columns, readable |-> FALSE]}

LocateSheet(i, kind) ==
    Sheet(kind.cols, kind.readable,
          <<Row(kind.cols, Id7,
                IF i % 2 = 1 THEN Text(Egypt) ELSE Text(SaudiArabia),
                Text(<<"s">> \o IntStr(i)))>>)

LocateUploads ==
    {Upload([i \in 1..Len(kinds) |-> LocateSheet(i, kinds[i])], <<Id7>>) :
        kinds \in UNION {[1..m -> SheetKinds] : m \in 1..MaxSheets}}

InitLocate == InitWith(LocateUploads)

SpecLocate == InitLocate /\ [][Next]_vars

(***************************************************************************)
(* Sheet roles, as the claims state them.                                  *)
(***************************************************************************)
MasterRole == {IdCol, NatCol}
ContractRole == {IdCol, StatusCol}

Satisfies(i, role) == emp_xls[i].readable /\ role \subseteq emp_xls[i].cols

\* the first of the sheets 1..n that satisfies the role, None when there is none
FirstAmong(n, role) ==
    LET hits == {i \in 1..n : Satisfies(i, role)}
    IN  IF hits = {} THEN None ELSE CHOOSE i \in hits : \A j \in hits : i <= j

FirstSheet(role) == FirstAmong(Len(emp_xls), role)

Running == pc \in {"scan", "done"}

\* the sheets the loop has looked at
Scanned == IF idx - 1 < Len(emp_xls) THEN idx - 1 ELSE Len(emp_xls)

\* C1: while main() runs, master_sheet is the first of the sheets scanned so
\* far whose header holds both 'Id number' and 'Nationality' (None when no
\* scanned sheet does), so a later sheet that also qualifies never replaces it.
C1_MasterIsFirstMatch == Running => master_sheet = FirstAmong(Scanned, MasterRole)

\* C1 witness: a run has ended on a workbook in which two sheets satisfy the
\* master role, and the earlier one is the master sheet.
C1_Witness ==
    /\ pc = "done"
    /\ \E i, j \in 1..Len(emp_xls) :
          /\ i < j
          /\ Satisfies(i, MasterRole)
          /\ Satisfies(j, MasterRole)
          /\ master_sheet = i

\* C2: when some sheet holds both 'Id number' and 'Contract Status', the
\* contract sheet a finished run has resolved is the first such sheet.
C2_ContractIsFirstWithBoth ==
    (pc = "done" /\ FirstSheet(ContractRole) # None)
        => contract_sheet = FirstSheet(ContractRole)

\* C3: a run on a workbook in which no sheet satisfies the contract role, or
\* none satisfies the master role, ends with an error whose message names
\* columns of a role that no sheet satisfies, and shows no metrics.
C3_MissingRoleIsNamed ==
    (pc = "done" /\ (FirstSheet(ContractRole) = None \/ FirstSheet(MasterRole) = None))
        => /\ result.kind = "error"
           /\ ErrorColumns(result.err) # {}
           /\ \E role \in {MasterRole, ContractRole} :
                 /\ FirstSheet(role) = None
                 /\ ErrorColumns(result.err) \subseteq role

\* C3 witness: a run has ended with the 'Id number' error on a workbook that
\* has a master sheet and a sheet with 'Contract Status', but no sheet with
\* both columns of the contract role.
C3_Witness ==
    /\ pc = "done"
    /\ FirstSheet(ContractRole) = None
    /\ FirstSheet(MasterRole) # None
    /\ contract_sheet # None
    /\ result = ErrorResult("no_id_column")

(***************************************************************************)
(* Workbooks for the master-contract join: a master sheet and a contract   *)
(* sheet whose identifiers are missing, numbers or texts.  Nationality     *)
(* alternates by row (foreign on odd rows).                                *)
(***************************************************************************)
IdCells == {Missing, Id7, Text(<<"7">>), Text(<<"x">>)}

NatAt(i) == IF i % 2 = 1 THEN Text(Egypt) ELSE Text(SaudiArabia)

StatusAt(i) == IF i % 2 = 1 THEN Text(FixedTermLabel) ELSE Text(IndefiniteLabel)

IdsUploads ==
    {Upload(<<MasterSheet([i \in 1..Len(m) |-> MasterRow(m[i], NatAt(i))]),
              ContractSheet([i \in 1..Len(c) |-> ContractRow(c[i], StatusAt(i))])>>,
            <<Id7>>) :
        m \in Tables(IdCells, MaxMaster), c \in Tables(IdCells, MaxContract)}

InitIds == InitWith(IdsUploads)

SpecIds == InitIds /\ [][Next]_vars

\* the rows of the sheets a run has resolved, and their identifier columns
MasterRows == emp_xls[master_sheet].rows
ContractRows == emp_xls[contract_sheet].rows
MasterIds == Column(MasterRows, IdCol)
ContractIds == Column(ContractRows, IdCol)

Shown == pc = "done" /\ result.kind = "metrics"

\* the canonical form of an identifier: the integer it denotes, NA when it
\* denotes none
Canon(cell) ==
    LET v == ToNumeric(cell)
    IN  IF v.k = "num" /\ v.frac = <<>> THEN v.n ELSE NA

\* one cell is a text and the other a number, and both denote the same integer
TextAndNumber(a, b) ==
    /\ {a.k, b.k} = {"text", "num"}
    /\ Canon(a) # NA
    /\ Canon(a) = Canon(b)

\* C4: when metrics are shown, an identifier that one resolved sheet holds as
\* a text ("7") and the other as a number (7, 7.0) has a reconciled record.
C4_JoinIgnoresRepresentation ==
    Shown =>
        \A i \in 1..Len(MasterIds), j \in 1..Len(ContractIds) :
            TextAndNumber(MasterIds[i], ContractIds[j])
                => \E r \in 1..Len(emp_merged) :
                      emp_merged[r].id_int = Canon(MasterIds[i])

\* C5: when metrics are shown, no reconciled record has an identifier that is
\* missing or fails to parse.
C5_NoRecordWithoutIdentifier ==
    Shown => \A r \in 1..Len(emp_merged) : emp_merged[r].id_int # NA

\* C6: when a run has ended, every reconciled record carries an identifier
\* held by both resolved sheets, and the two foreign counts count reconciled
\* records only.
C6_InnerJoin ==
    pc = "done" =>
        /\ \A r \in 1..Len(emp_merged) :
              /\ emp_merged[r].id \in Range(AsStrColumn(MasterIds))
              /\ emp_merged[r].id \in Range(AsStrColumn(ContractIds))
        /\ result.foreign =
              Cardinality({r \in 1..Len(emp_merged) : IsForeign(emp_merged[r].nat)})
        /\ result.foreign_many =
              Cardinality({r \in 1..Len(emp_merged) :
                              /\ IsForeign(emp_merged[r].nat)
                              /\ emp_merged[r].dependents > ManyDependents})

\* C6 witness: metrics are shown with a reconciled record, while the master
\* sheet holds an identifier the contract sheet lacks and the contract sheet
\* one the master sheet lacks.
C6_Witness ==
    /\ Shown
    /\ Len(emp_merged) >= 1
    /\ \E i \in 1..Len(MasterIds) :
          AsStrColumn(MasterIds)[i] \notin Range(AsStrColumn(ContractIds))
    /\ \E j \in 1..Len(ContractIds) :
          AsStrColumn(ContractIds)[j] \notin Range(AsStrColumn(MasterIds))

(***************************************************************************)
(* Uploads for the dependents join: every employee is in both sheets, with *)
(* the same identifier cell; the head-of-household cells vary.             *)
(***************************************************************************)
EmployeeIds == {Id7, Id9, Text(<<"x">>)}

HeadCells == {Missing, Id7, Text(<<"7">>), Text(<<"x">>), Num(7, <<5>>)}

DepsUploads ==
    {Upload(<<MasterSheet([i \in 1..Len(e) |-> MasterRow(e[i], NatAt(i))]),
              ContractSheet([i \in 1..Len(e) |-> ContractRow(e[i], StatusAt(i))])>>,
            d) :
        e \in Tables(EmployeeIds, MaxMaster), d \in Tables(HeadCells, MaxDeps)}

InitDeps == InitWith(DepsUploads)

SpecDeps == InitDeps /\ [][Next]_vars

Occurrences(values, v) == Cardinality({i \in 1..Len(values) : values[i] = v})

\* the dependents rows registered under the identifier a cell denotes
DependentsOf(cell) ==
    {d \in 1..Len(dep_file) : Canon(cell) # NA /\ Canon(dep_file[d]) = Canon(cell)}

\* the employee of master row i has the dependents count the claim gives it
HasDependentsCount(i) ==
    LET id == AsStrColumn(MasterIds)[i]
    IN  (/\ Occurrences(AsStrColumn(MasterIds), id) = 1
         /\ Occurrences(AsStrColumn(ContractIds), id) = 1)
            => \E r \in 1..Len(emp_merged) :
                  /\ emp_merged[r].id = id
                  /\ emp_merged[r].dependents = Cardinality(DependentsOf(MasterIds[i]))

\* both sheets were resolved and the run went on to reconcile them
Reconciling == pc = "done" /\ (result.kind = "metrics" \/ result.err = "exception")

\* C7: after a run that resolved both sheets, every employee whose identifier
\* occurs once in the master sheet and once in the contract sheet has one
\* reconciled record, whose dependents count is the number of dependents rows
\* whose head identifier denotes the same integer as the employee's: 0 when
\* there is none, and rows whose head identifier denotes no integer are never
\* counted.
C7_DependentsCount ==
    Reconciling => \A i \in 1..Len(MasterIds) : HasDependentsCount(i)

\* In every run that shows metrics the dependents counts are as stated.
DependentsCountWhenShown ==
    Shown => \A i \in 1..Len(MasterIds) : HasDependentsCount(i)

(***************************************************************************)
(* Uploads for the nationality classification: employee i has identifier i *)
(* in both sheets; the nationality cells vary.                             *)
(***************************************************************************)
SaudiArabiaPadded == SaudiArabia \o <<" ">>

NatCells ==
    {Text(SaudiArabia), Text(SaudiArabiaUpper), Text(SaudiArabiaLower),
     Text(SaudiArabiaPadded), Text(Egypt), Missing}

NatUploads ==
    {Upload(<<MasterSheet([i \in 1..Len(n) |-> MasterRow(Num(i, <<>>), n[i])]),
              ContractSheet([i \in 1..Len(n) |->
                                ContractRow(Num(i, <<>>), StatusAt(i))])>>,
            <<Id7>>) :
        n \in Tables(NatCells, MaxMaster)}

InitNat == InitWith(NatUploads)

SpecNat == InitNat /\ [][Next]_vars

SameLetter(a, b) ==
    a = b \/ \E k \in 1..26 : {a, b} = {UpperCase[k], LowerCase[k]}

\* the texts that differ from 'Saudi Arabia' in the case of letters at most
IsSaudiArabia(cell) ==
    /\ cell.k = "text"
    /\ Len(cell.s) = Len(SaudiArabia)
    /\ \A i \in 1..Len(SaudiArabia) : SameLetter(cell.s[i], SaudiArabia[i])

\* C8: when a run has ended, the foreign-employee count is the number of
\* reconciled records whose nationality is not 'Saudi Arabia' in some
\* capitalisation.
C8_ForeignIffNotSaudiArabia ==
    pc = "done" =>
        result.foreign =
            Cardinality({r \in 1..Len(emp_merged) : ~IsSaudiArabia(emp_merged[r].nat)})

\* C8 witness: metrics are shown for 'SAUDI ARABIA' and a foreign nationality,
\* and one foreign employee is counted.
C8_Witness ==
    /\ Shown
    /\ Len(emp_merged) = 2
    /\ \E r \in 1..2 : emp_merged[r].nat = Text(SaudiArabiaUpper)
    /\ \E r \in 1..2 : emp_merged[r].nat = Text(Egypt)
    /\ result.foreign = 1

(***************************************************************************)
(* Uploads for the status distribution: employee i has identifier i in     *)
(* both sheets; the contract status cells vary.                            *)
(***************************************************************************)
StatusCells ==
    {Text(FixedTermLabel), Text(<<" ">> \o IndefiniteLabel \o <<" ">>),
     Text(<<"x">>), Text(<<" ">>), Text(<<" ">> \o NaNStr \o <<" ">>), Missing}

StatusUploads ==
    {Upload(<<MasterSheet([i \in 1..Len(c) |-> MasterRow(Num(i, <<>>), NatAt(i))]),
              ContractSheet([i \in 1..Len(c) |-> ContractRow(Num(i, <<>>), c[i])])>>,
            <<Id7>>) :
        c \in Tables(StatusCells, MaxContract)}

InitStatus == InitWith(StatusUploads)

SpecStatus == InitStatus /\ [][Next]_vars

RECURSIVE SumOver(_, _)
SumOver(f, keys) ==
    IF keys = {} THEN 0
    ELSE LET k == CHOOSE x \in keys : TRUE
         IN  f[k] + SumOver(f, keys \ {k})

\* a status cell that is neither missing nor blank once trimmed
HasStatus(cell) == cell.k = "num" \/ (cell.k = "text" /\ Strip(cell.s) # <<>>)

\* C9: when metrics are shown, the fixed-term count, the indefinite count and
\* the counts of the other labels of the distribution add up to the number
\* of contract rows whose status is neither missing nor blank once trimmed.
C9_DistributionCoversStatuses ==
    Shown =>
        /\ result.fixed = CountsGet(result.dist, FixedTermLabel)
        /\ result.indefinite = CountsGet(result.dist, IndefiniteLabel)
        /\ SumOver(result.dist, DOMAIN result.dist) =
              Cardinality({i \in 1..Len(ContractRows) :
                              HasStatus(ContractRows[i][StatusCol])})

(***************************************************************************)
(* Re-running.                                                             *)
(***************************************************************************)
\* C10: a finished run shows what the first run on the same files showed,
\* whatever ran in between.
C10_SameFilesSameResult ==
    (pc = "done" /\ memo[sel] # NoResult) => result = memo[sel]

\* C10 witness: metrics are shown again for files that were run before,
\* after a run on the other files that showed something else.
C10_Witness ==
    /\ Shown
    /\ memo[sel] = result
    /\ memo[3 - sel] # NoResult
    /\ memo[3 - sel] # result

(***************************************************************************)
(* Reports for the rate extraction.  A part of a text is what follows one  *)
(* anchor phrase: filler, a run of digits, and a percent sign placed at a  *)
(* chosen offset from the start of the phrase, so that it falls inside or  *)
(* outside the look-ahead of either variant.                               *)
(***************************************************************************)
Gap(n) == [i \in 1..n |-> "."]

West75 == <<"7", "5">>
East75 == <<"e7", "e5">>
Mixed75 == <<"7", "e5">>
West150 == <<"1", "5", "0">>
West90 == <<"9", "0">>

DigitRuns == {West75, East75, Mixed75, West150}

\* nothing, or a space, between the digits and the percent sign
Separators == {<<>>, <<" ">>}

\* the offsets of the percent sign: the last of the variant's window, the
\* first after it, the last of the window of line 100, the first after it
PercentOffsets == {AppWindowSize - 1, AppWindowSize, WindowSize - 1, WindowSize}

\* phrase ... run sep '%', the percent sign at the given offset from the phrase
PercentAt(phrase, run, sep, offset) ==
    phrase \o Gap(offset - Len(phrase) - Len(run) - Len(sep)) \o run \o sep \o <<"%">>

\* the phrase with a number and no percent sign, at the end of a line that
\* is longer than the window
NoPercent(phrase) == phrase \o <<" ">> \o West75 \o Gap(WindowSize)

\* everything that may follow one phrase
Parts(phrase) ==
    {PercentAt(phrase, run, sep, offset) :
        run \in DigitRuns, sep \in Separators, offset \in PercentOffsets}
      \cup {phrase \o <<" ">> \o run \o sep \o <<"%">> \o Gap(WindowSize) :
              run \in DigitRuns, sep \in Separators}
      \cup {NoPercent(phrase), Gap(2)}

\* a few of them: the rate close to the phrase, no percent sign, no phrase
FewParts(phrase) ==
    {phrase \o <<" ">> \o West90 \o <<"%">> \o Gap(WindowSize), NoPercent(phrase), Gap(2)}

\* one line per rate kind
RateTexts ==
    {s \o <<"\n">> \o d : s \in Parts(SaudPhrase), d \in FewParts(DocPhrase)}
      \cup {s \o <<"\n">> \o d : s \in FewParts(SaudPhrase), d \in Parts(DocPhrase)}

\* a report docling and pdfplumber read the same text from
OnePage(text) == Pdf(Docling("text", text), FALSE, <<text>>)

MaxPages == 2

\* reports docling fails on, whose pages each hold a few parts
PagedPdfs ==
    {Pdf(DoclingRaises, FALSE, pages) :
        pages \in UNION {[1..n -> FewParts(SaudPhrase)] : n \in 2..MaxPages}}

\* the workbook of the reports: one foreign employee in both sheets
OneEmployee ==
    <<MasterSheet(<<MasterRow(Id7, Text(Egypt))>>),
      ContractSheet(<<ContractRow(Id7, Text(FixedTermLabel))>>)>>

\* the Saudisation phrase twice on one page, the rate after the second
TwiceOnPage == NoPercent(SaudPhrase) \o <<" ">> \o SaudPhrase \o Rate75

\* the phrase with each of its spaces replaced by sep
Spread(phrase, sep) ==
    Concat([i \in 1..Len(phrase) |-> IF phrase[i] = " " THEN sep ELSE <<phrase[i]>>])

WideSpace(n) == [i \in 1..n |-> " "]

\* both phrases with their words apart, and a window's length of spaces
\* before the first rate
SpreadLine ==
    Spread(SaudPhrase, WideSpace(3)) \o WideSpace(WindowSize) \o West75 \o <<"%", "\n">>
        \o Spread(DocPhrase, <<" ", "\n", "\t">>) \o Rate90

\* texts whose phrases are broken by line breaks and runs of spaces
SpreadTexts == {Spread(SaudPhrase, <<"\n">>) \o Rate75, SpreadLine}

\* a report docling fails on: the Saudisation phrase starts on the first page
\* and ends on the second
SplitAcrossPages ==
    Pdf(DoclingRaises, FALSE,
        <<SubSeq(SaudPhrase, 1, 4), SubSeq(SaudPhrase, 6, Len(SaudPhrase)) \o Rate75>>)

RatesUploads ==
    {UploadReport(OneEmployee, <<Id7>>, pdf, <<Untouched, Untouched>>) :
        pdf \in {OnePage(text) : text \in RateTexts \cup {TwiceOnPage} \cup SpreadTexts}
                    \cup PagedPdfs \cup {SplitAcrossPages}}

InitRates == InitWith(RatesUploads)

SpecRates == InitRates /\ [][Next]_vars

\* extract_pdf_metrics has returned for the report in the uploader
Extracted == pc \in {"inputs", "excel", "scan", "done"} /\ pdf_file.present

Phrases == <<SaudPhrase, DocPhrase>>

\* the text parse_rates searches: the extracted text, whitespace collapsed
NormalText == CollapseWhitespace(extracted_text)

\* the window that starts at the first occurrence of the phrase
FirstWindow(text, phrase, size) ==
    LET first == CHOOSE i \in Occurs(text, phrase) : \A j \in Occurs(text, phrase) : i <= j
    IN  SubSeq(text, first + 1,
               IF first + size < Len(text) THEN first + size ELSE Len(text))

\* the value of a digit of either numeral system
RateDigitValue(c) ==
    IF IsEasternDigit(c) THEN (CHOOSE k \in 1..10 : EasternDigits[k] = c) - 1
    ELSE DigitValue(c)

\* a digit run rendered in Western digits
Western(run) == [i \in 1..Len(run) |-> Digits[RateDigitValue(run[i]) + 1]]

\* the digit runs of w: the pairs <<i, j>> such that w[i..j] are digits and
\* neither neighbour is one
RunsOf(w) ==
    LET starts == {i \in 1..Len(w) :
                     IsRateDigit(w[i]) /\ (i = 1 \/ ~IsRateDigit(w[i - 1]))}
        ends   == {j \in 1..Len(w) :
                     IsRateDigit(w[j]) /\ (j = Len(w) \/ ~IsRateDigit(w[j + 1]))}
    IN  {<<i, CHOOSE j \in ends : j >= i /\ \A e \in ends : e >= i => j <= e>> :
            i \in starts}

\* the run is followed by a percent sign with nothing in between
PercentFollows(w, r) == r[2] < Len(w) /\ w[r[2] + 1] = "%"

\* the run is followed by a percent sign, after whitespace at most
PercentFollowsSpaces(w, r) ==
    \E p \in (r[2] + 1)..Len(w) :
        /\ w[p] = "%"
        /\ \A k \in (r[2] + 1)..(p - 1) : w[k] \in Whitespace

\* C11: for the report parsed by src/dashboard_arabic.py and each rate kind:
\* without the anchor phrase in the text the rate is None; with the phrase
\* but no percent sign in the window of 80 characters that starts at the
\* phrase the rate is None; with a digit run followed by '%' in that window
\* the rate is found and is a digit run of the window that a percent sign
\* follows, in Western digits, with '%' appended.
C11_RateFromWindow ==
    (Extracted /\ variant = "dashboard" /\ ~NoText(extracted_text)) =>
        \A k \in 1..2 :
            IF Occurs(NormalText, Phrases[k]) = {}
            THEN extracted[k] = NoneText
            ELSE LET w == FirstWindow(NormalText, Phrases[k], WindowSize)
                 IN  /\ "%" \notin Range(w) => extracted[k] = NoneText
                     /\ (\E r \in RunsOf(w) : PercentFollows(w, r))
                          => \E r \in RunsOf(w) :
                                /\ PercentFollowsSpaces(w, r)
                                /\ extracted[k] =
                                     Western(SubSeq(w, r[1], r[2])) \o <<"%">>

\* C11 witness: the Saudisation rate was read from Eastern digits whose
\* percent sign is the last character of the window, and the contract
\* documentation phrase has no percent sign in its window.
C11_Witness ==
    /\ Extracted
    /\ variant = "dashboard"
    /\ extracted_text = PercentAt(SaudPhrase, East75, <<>>, WindowSize - 1)
                            \o <<"\n">> \o NoPercent(DocPhrase)
    /\ extracted = <<West75 \o <<"%">>, NoneText>>

(***************************************************************************)
(* Reports for the fallback chain: every outcome of docling, pdfplumber    *)
(* raising or not, pages with and without text, and either module          *)
(* installed or not.                                                       *)
(***************************************************************************)
\* the text of a page; docling's text of the same report is TwoRates
PageRates == SaudPhrase \o Rate90

DoclingOutcomes ==
    {DoclingRaises, DoclingNoDocument, DoclingExportsRaise, Docling("text", <<>>),
     Docling("text", TwoRates), Docling("markdown", TwoRates)}

\* page.extract_text() returns None, '' or a text
PageTexts == {NoneText, <<>>, PageRates}

PdfUploads ==
    {UploadReport(OneEmployee, <<Id7>>, Pdf(docling, raises, pages),
                  <<Untouched, Untouched>>) :
        docling \in DoclingOutcomes, raises \in BOOLEAN,
        pages \in Tables(PageTexts, MaxPages)}

InitPdf == InitIn(PdfUploads, BOOLEAN, BOOLEAN)

SpecPdf == InitPdf /\ [][Next]_vars

\* the two attempts of extract_pdf_metrics are over
Acquired == pc \in {"return", "inputs", "excel", "scan", "done"} /\ pdf_file.present

\* the primary extractor is installed and returned a text that is not empty
PrimaryGaveText ==
    /\ docling_available
    /\ pdf_file.docling.kind \in {"text", "markdown"}
    /\ pdf_file.docling.text # <<>>

\* the secondary extractor is installed, does not raise and finds text on a page
SecondaryGaveText ==
    /\ pdfplumber_available
    /\ ~pdf_file.raises
    /\ \E p \in 1..Len(pdf_file.pages) : pdf_file.pages[p] \notin {NoneText, <<>>}

\* C12: in src/dashboard_arabic.py, once text acquisition is over, docling
\* was tried exactly when it is installed, and before pdfplumber; pdfplumber
\* (when installed) was tried exactly when docling is not installed, raised
\* or returned no text: never after docling returned a text that is not
\* empty, and always after docling failed.
C12_FallbackChain ==
    (Acquired /\ variant = "dashboard") =>
        /\ tried \in {<<>>, <<"docling">>, <<"pdfplumber">>, <<"docling", "pdfplumber">>}
        /\ "docling" \in Range(tried) <=> docling_available
        /\ "pdfplumber" \in Range(tried) <=> (pdfplumber_available /\ ~PrimaryGaveText)

\* C12 witness: docling raised on the report, pdfplumber was tried after it
\* and the rate of the page was extracted.
C12_Witness ==
    /\ Acquired
    /\ variant = "dashboard"
    /\ pdf_file.docling = DoclingRaises
    /\ tried = <<"docling", "pdfplumber">>
    /\ extracted = <<West90 \o <<"%">>, NoneText>>

\* C13: extract_pdf_metrics never ends with an exception, tries each
\* strategy at most once (docling, then pdfplumber), and in
\* src/dashboard_arabic.py returns None for both rates when neither strategy
\* gave a text.
C13_BoundedChainNeverRaises ==
    /\ pc \in {"idle", "docling", "pdfplumber", "return", "per_page", "inputs",
               "excel", "scan", "done"}
    /\ Len(tried) <= 2
    /\ Len(tried) = 2 => tried = <<"docling", "pdfplumber">>
    /\ (Extracted /\ variant = "dashboard" /\ ~PrimaryGaveText /\ ~SecondaryGaveText)
          => extracted = <<NoneText, NoneText>>

\* C13 witness: both modules are installed, both raised on the report, each
\* was tried once and both rates are None.
C13_Witness ==
    /\ Extracted
    /\ variant = "dashboard"
    /\ pdf_file.docling = DoclingRaises
    /\ pdf_file.raises
    /\ tried = <<"docling", "pdfplumber">>
    /\ extracted = <<NoneText, NoneText>>

(***************************************************************************)
(* Uploads for the text inputs: a report with both rates, with one rate or *)
(* none, and what the operator does to each of the two inputs.             *)
(***************************************************************************)
Found75 == West75 \o <<"%">>
Found90 == West90 \o <<"%">>

\* the operator leaves the input alone, clears it, types another rate, or
\* types the rate the report holds
InputChoices == {Untouched, Typed(<<>>), Typed(Rate80), Typed(Found75)}

InputPdfs == {NoPdf, OnePage(TwoRates), OnePage(SaudPhrase \o Rate75)}

InputsUploads ==
    {UploadReport(OneEmployee, <<Id7>>, pdf, <<saud, doc>>) :
        pdf \in InputPdfs, saud \in InputChoices, doc \in InputChoices}

InitInputs == InitWith(InputsUploads)

SpecInputs == InitInputs /\ [][Next]_vars

\* the two text inputs have been read in this run
InputsRead == pc \in {"excel", "scan", "done"}

\* what the page shows for rate kind k: in the compliance section above the
\* workbook results and in the one that follows the headline counts
ShownValues(k) ==
    (IF compliance.shown THEN {compliance.rates[k]} ELSE {})
        \cup (IF pc = "done" /\ report.shown THEN {report.rates[k]} ELSE {})

\* C14: for each rate kind with an extracted value, once the inputs are
\* read: if the operator typed a value that differs from the extracted one,
\* every compliance section shows the operator's value (the "not provided"
\* note for an empty one); and a section shows the extracted value only if
\* the operator left the input alone or typed that same value.
C14_OperatorValueWins ==
    InputsRead =>
        \A k \in 1..2 :
            extracted[k] # NoneText =>
                /\ (typed[k].edited /\ typed[k].text # extracted[k])
                      => \A v \in ShownValues(k) : v = typed[k].text
                /\ extracted[k] \in ShownValues(k)
                      => (~typed[k].edited \/ typed[k].text = extracted[k])

\* C14 witness: the report yields 75% and 90%, the operator typed 80% for
\* the Saudisation rate and left the other input alone; the metrics are
\* shown with 80% and 90%.
C14_Witness ==
    /\ Shown
    /\ extracted = <<Found75, Found90>>
    /\ typed = <<Typed(Rate80), Untouched>>
    /\ report = ShownRates(Rate80, Found90)

(***************************************************************************)
(* Malformed rows, and the contract counts.                                *)
(***************************************************************************)
\* C15: a finished run that resolved both sheets and went on to reconcile
\* them shows the four headline counts, whatever values the rows hold.
C15_MalformedRowDoesNotAbort == Reconciling => result.kind = "metrics"

\* the contract rows with the given trimmed status whose identifier is the
\* identifier of a reconciled record
ReconciledWithStatus(label) ==
    {j \in 1..Len(ContractRows) :
        /\ StatusStrings(Column(ContractRows, StatusCol))[j] = label
        /\ \E r \in 1..Len(emp_merged) : emp_merged[r].id = AsStrColumn(ContractIds)[j]}

\* C19: when metrics are shown, the fixed-term count and the indefinite
\* count count only contract rows whose identifier has a match in the
\* master sheet, that is, rows of reconciled records.
C19_ContractCountsOverReconciled ==
    Shown =>
        /\ result.fixed = Cardinality(ReconciledWithStatus(FixedTermLabel))
        /\ result.indefinite = Cardinality(ReconciledWithStatus(IndefiniteLabel))

(***************************************************************************)
(* Uploads for the dependents threshold: the employees 7 and 9, foreign or *)
(* domestic, and MaxHousehold dependents shared between the two heads.     *)
(***************************************************************************)
MaxHousehold == 9

Households ==
    {[i \in 1..MaxHousehold |-> IF i <= n THEN Id7 ELSE Id9] : n \in 0..MaxHousehold}

ManyRows == {MasterRow(id, nat) : id \in {Id7, Id9}, nat \in {Text(Egypt), Text(SaudiArabia)}}

ManyUploads ==
    {Upload(<<MasterSheet(m),
              ContractSheet([i \in 1..Len(m) |-> ContractRow(m[i][IdCol], StatusAt(i))])>>,
            d) :
        m \in Tables(ManyRows, MaxMaster), d \in Households}

InitMany == InitWith(ManyUploads)

SpecMany == InitMany /\ [][Next]_vars

\* C20: when a run has ended, the foreign-with-many-dependents count is the
\* number of reconciled records whose nationality is not 'Saudi Arabia' and
\* whose identifier heads more than 4 dependents rows; a record with exactly
\* 4 and a domestic record are not counted.
C20_StrictlyMoreThanFour ==
    pc = "done" =>
        result.foreign_many =
            Cardinality({r \in 1..Len(emp_merged) :
                            /\ ~IsSaudiArabia(emp_merged[r].nat)
                            /\ Cardinality(DependentsOf(Text(emp_merged[r].id))) > 4})

\* C20 witness: metrics are shown for two foreign employees, one with 4
\* dependents and one with 5, and one is counted.
C20_Witness ==
    /\ Shown
    /\ Len(emp_merged) = 2
    /\ \A r \in 1..2 : emp_merged[r].nat = Text(Egypt)
    /\ {emp_merged[r].dependents : r \in 1..2} = {4, 5}
    /\ result.foreign_many = 1

(***************************************************************************)
(* The rates that extraction returns.                                      *)
(***************************************************************************)
\* the digits of a returned rate: all but its last character
RateDigits(rate) == SubSeq(rate, 1, Len(rate) - 1)

\* C16: every rate that extraction returns is a run of Western digits that
\* denotes an integer between 0 and 100, followed by '%'.
C16_RateWithinPercentRange ==
    Extracted =>
        \A k \in 1..2 :
            extracted[k] # NoneText =>
                /\ extracted[k][Len(extracted[k])] = "%"
                /\ RateDigits(extracted[k]) # <<>>
                /\ AllDigits(RateDigits(extracted[k]))
                /\ DigitsValue(RateDigits(extracted[k])) <= 100

\* the digits of the run belong to one numeral system
SingleSystem(run) ==
    \/ \A i \in 1..Len(run) : IsDigit(run[i])
    \/ \A i \in 1..Len(run) : IsEasternDigit(run[i])

\* C17: in src/dashboard_arabic.py, when the anchor phrase is in the text,
\* the rate is found exactly when the window of 80 characters that starts at
\* the phrase holds a digit run of a single numeral system with '%' as the
\* very next character.
C17_PercentImmediatelyFollows ==
    (Extracted /\ variant = "dashboard" /\ ~NoText(extracted_text)) =>
        \A k \in 1..2 :
            Occurs(NormalText, Phrases[k]) # {} =>
                LET w == FirstWindow(NormalText, Phrases[k], WindowSize)
                IN  extracted[k] # NoneText
                      <=> \E r \in RunsOf(w) :
                             /\ PercentFollows(w, r)
                             /\ SingleSystem(SubSeq(w, r[1], r[2]))

\* the texts of the document in the order they are searched: the whole
\* extracted text in src/dashboard_arabic.py, the pages that have text in
\* the variant; whitespace collapsed
DocumentTexts ==
    IF variant = "app"
    THEN LET pages == SelectSeq(pdf_file.pages, LAMBDA page_text : ~NoText(page_text))
         IN  [i \in 1..Len(pages) |-> CollapseWhitespace(pages[i])]
    ELSE IF NoText(extracted_text) THEN <<>> ELSE <<NormalText>>

LookAhead == IF variant = "app" THEN AppWindowSize ELSE WindowSize

\* the window after the first occurrence of the phrase in the document holds
\* no percentage
FirstOccurrenceWithoutRate(phrase) ==
    LET holders == {i \in 1..Len(DocumentTexts) : Occurs(DocumentTexts[i], phrase) # {}}
    IN  /\ holders # {}
        /\ LET first == CHOOSE i \in holders : \A j \in holders : i <= j
           IN  Search(FirstWindow(DocumentTexts[first], phrase, LookAhead)) = NoneText

\* C18: for each rate kind, when the window after the first occurrence of
\* the anchor phrase in document order holds no percentage, the rate is
\* None, whatever follows a later occurrence on the same or a later page.
C18_FirstOccurrenceOnly ==
    Extracted =>
        \A k \in 1..2 : FirstOccurrenceWithoutRate(Phrases[k]) => extracted[k] = NoneText

\* In src/dashboard_arabic.py the first occurrence alone decides.
FirstOccurrenceOnlyInDashboard ==
    (Extracted /\ variant = "dashboard") =>
        \A k \in 1..2 : FirstOccurrenceWithoutRate(Phrases[k]) => extracted[k] = NoneText

(***************************************************************************)
(* Numeral normalisation of the matched run.                               *)
(***************************************************************************)
\* group 1 of the match in the window after the first occurrence of the
\* phrase: the run that is normalised (None without a match)
MatchedRun(phrase) ==
    IF Occurs(NormalText, phrase) = {} THEN NoneText
    ELSE Search(FirstWindow(NormalText, phrase, WindowSize))

\* C21: in src/dashboard_arabic.py, the normalisation of a matched digit run
\* has the length of the run, holds at each position the Western digit of
\* the value of the run's digit there (a Western digit is unchanged), gives
\* the same again when applied to its own result, and is the rate returned
\* once '%' is appended.
C21_NormalisationKeepsValues ==
    (Extracted /\ variant = "dashboard" /\ ~NoText(extracted_text)) =>
        \A k \in 1..2 :
            LET num == MatchedRun(Phrases[k])
            IN  num # NoneText =>
                   /\ Len(Translate(num)) = Len(num)
                   /\ \A i \in 1..Len(num) :
                         /\ Translate(num)[i] = Digits[RateDigitValue(num[i]) + 1]
                         /\ IsDigit(num[i]) => Translate(num)[i] = num[i]
                   /\ Translate(Translate(num)) = Translate(num)
                   /\ extracted[k] = Translate(num) \o <<"%">>

\* C21 witness: a run of a Western and an Eastern digit was matched after
\* the Saudisation phrase and 75% was returned.
C21_Witness ==
    /\ Extracted
    /\ variant = "dashboard"
    /\ ~NoText(extracted_text)
    /\ MatchedRun(SaudPhrase) = Mixed75
    /\ extracted[1] = Found75

(***************************************************************************)
(* Whitespace normalisation.                                               *)
(***************************************************************************)
\* the characters of the text that are not whitespace, in order
Letters(text) == SelectSeq(text, LAMBDA c : c \notin Whitespace)

\* the number of runs of whitespace in the text
WhitespaceRuns(text) ==
    Cardinality({i \in 1..Len(text) :
                    /\ text[i] \in Whitespace
                    /\ i = 1 \/ text[i - 1] \notin Whitespace})

\* C22: in src/dashboard_arabic.py the text that is searched is the
\* extracted text with every run of whitespace (spaces, tabs, newlines, the
\* newline that joins two pages) replaced by one space and nothing else
\* changed; when it holds the anchor phrase and, in the window of 80 of its
\* characters that starts at the phrase, a digit run followed by '%', the
\* rate is found.
C22_WhitespaceCollapsed ==
    (Extracted /\ variant = "dashboard" /\ ~NoText(extracted_text)) =>
        LET norm == NormalText
        IN  /\ \A i \in 1..Len(norm) :
                  norm[i] \in Whitespace =>
                     /\ norm[i] = " "
                     /\ i < Len(norm) => norm[i + 1] \notin Whitespace
            /\ Letters(norm) = Letters(extracted_text)
            /\ WhitespaceRuns(norm) = WhitespaceRuns(extracted_text)
            /\ \A k \in 1..2 :
                  Occurs(norm, Phrases[k]) # {} =>
                     LET w == FirstWindow(norm, Phrases[k], WindowSize)
                     IN  (\E r \in RunsOf(w) : PercentFollows(w, r))
                            => extracted[k] # NoneText

\* C22 witness: pdfplumber read two pages, the first ends with the first
\* word of the Saudisation phrase and the second starts with its second
\* word; the extracted text does not hold the phrase, and 75% was found.
C22_Witness ==
    /\ Extracted
    /\ variant = "dashboard"
    /\ tried = <<"docling", "pdfplumber">>
    /\ Len(pdf_file.pages) = 2
    /\ Occurs(extracted_text, SaudPhrase) = {}
    /\ extracted[1] = Found75

\* the rate was read from a text in which more than 80 characters lie
\* between the phrase and the percent sign, most of them spaces
FoundBeyondRawWindow ==
    /\ Extracted
    /\ variant = "dashboard"
    /\ extracted_text = SpreadLine
    /\ extracted = <<Found75, Found90>>

(***************************************************************************)
(* The left join with the dependents counts.                               *)
(***************************************************************************)
\* the records the master-contract join gave the run
JoinedRecords == EmpDf(emp_xls[master_sheet], emp_xls[contract_sheet])

\* C23: when metrics are shown, the records with their dependents counts are
\* the joined employee records, one for one and in the same order, each with
\* its identifier, nationality and status unchanged and a dependents count
\* that is a natural number; and no finished run shows more foreign employees
\* with more than four dependents than foreign employees.
C23_LeftJoinKeepsRecords ==
    /\ Shown =>
          LET emp_df == JoinedRecords
          IN  /\ Len(emp_merged) = Len(emp_df)
              /\ \A r \in 1..Len(emp_merged) :
                    /\ emp_merged[r].id = emp_df[r].id
                    /\ emp_merged[r].nat = emp_df[r].nat
                    /\ emp_merged[r].status = emp_df[r].status
                    /\ emp_merged[r].dependents \in Nat
    /\ pc = "done" => result.foreign_many <= result.foreign

\* C23 witness: metrics are shown for two joined records and two dependents
\* rows; both rows were counted for the first record and none for the second.
C23_Witness ==
    /\ Shown
    /\ Len(dep_file) = 2
    /\ Len(JoinedRecords) = 2
    /\ Len(emp_merged) = 2
    /\ emp_merged[1].dependents = 2
    /\ emp_merged[2].dependents = 0

(***************************************************************************)
(* Uploads for repeated identifiers: the master and the contract sheet     *)
(* hold the identifiers 7 and 9 any number of times, independently; the    *)
(* dependents file gives 7 five dependents, or 9 one.                      *)
(***************************************************************************)
FiveOfSeven == [i \in 1..ManyDependents + 1 |-> Id7]

PairUploads ==
    {Upload(<<MasterSheet(m),
              ContractSheet([j \in 1..Len(c) |-> ContractRow(c[j], StatusAt(j))])>>,
            d) :
        m \in Tables(ManyRows, MaxMaster), c \in Tables({Id7, Id9}, MaxContract),
        d \in {FiveOfSeven, <<Id9>>}}

InitPairs == InitWith(PairUploads)

SpecPairs == InitPairs /\ [][Next]_vars

\* the pairs of a master row and a contract row with the same identifier
\* whose master row satisfies P
MatchingPairs(P(_)) ==
    {p \in (1..Len(MasterIds)) \X (1..Len(ContractIds)) :
        /\ AsStrColumn(MasterIds)[p[1]] = AsStrColumn(ContractIds)[p[2]]
        /\ P(p[1])}

ForeignRow(i) == ~IsSaudiArabia(MasterRows[i][NatCol])

ForeignRowWithMany(i) ==
    ForeignRow(i) /\ Cardinality(DependentsOf(MasterIds[i])) > ManyDependents

\* C24: when metrics are shown, every identifier has as many reconciled
\* records as the product of its occurrences in the master sheet and in the
\* contract sheet; the foreign count is the number of pairs of a foreign
\* master row and a contract row with its identifier, and the count of
\* foreign employees with more than four dependents is the number of those
\* pairs whose identifier heads more than four dependents rows.
C24_AllMatchesCounted ==
    Shown =>
        /\ \A i \in 1..Len(MasterIds) :
              LET id == AsStrColumn(MasterIds)[i]
              IN  Cardinality({r \in 1..Len(emp_merged) : emp_merged[r].id = id})
                     = Occurrences(AsStrColumn(MasterIds), id)
                          * Occurrences(AsStrColumn(ContractIds), id)
        /\ Len(emp_merged) = Cardinality(MatchingPairs(LAMBDA i : TRUE))
        /\ result.foreign = Cardinality(MatchingPairs(ForeignRow))
        /\ result.foreign_many = Cardinality(MatchingPairs(ForeignRowWithMany))

\* C24 witness: the identifier 7 is once in the master sheet, on a foreign
\* employee, and twice in the contract sheet, and heads five dependents rows;
\* two records are shown, and both counts are 2.
C24_Witness ==
    /\ Shown
    /\ Len(MasterIds) = 1
    /\ ~IsSaudiArabia(MasterRows[1][NatCol])
    /\ ContractIds = <<Id7, Id7>>
    /\ MasterIds = <<Id7>>
    /\ dep_file = FiveOfSeven
    /\ Len(emp_merged) = 2
    /\ result.foreign = 2
    /\ result.foreign_many = 2

(***************************************************************************)
(* A cleared rate input.                                                   *)
(***************************************************************************)
\* the operator emptied the input of rate kind k, which was prefilled
Cleared(k) == extracted[k] # NoneText /\ typed[k] = Typed(<<>>)

\* the rate of kind k as main() holds it once the inputs are read
RateHeld(k) == IF k = 1 THEN saudisation_rate ELSE contract_doc_rate

\* C25: once the inputs are read, a rate kind whose extracted value the
\* operator replaced by the empty text is held as the empty text for the rest
\* of the run: no compliance section shows a value for it, and the section
\* that follows the headline counts, shown with the metrics, has the "not
\* provided" note for it.
C25_ClearedStaysCleared ==
    InputsRead =>
        \A k \in 1..2 :
            Cleared(k) =>
                /\ RateHeld(k) = <<>>
                /\ ShownValues(k) \subseteq {<<>>}
                /\ Shown => report.shown /\ report.rates[k] = <<>>

\* C25 witness: the report yields 75% and 90%, the operator emptied the
\* Saudisation input and left the other alone; the metrics are shown with no
\* Saudisation rate and 90%.
C25_Witness ==
    /\ Shown
    /\ variant = "dashboard"
    /\ extracted = <<Found75, Found90>>
    /\ Cleared(1)
    /\ typed[2] = Untouched
    /\ compliance = ShownRates(<<>>, Found90)
    /\ report = ShownRates(<<>>, Found90)

====
